---- MODULE Spec2Model ----
(***************************************************************************)
(* Model of the persona pipeline of src/main.py: the text returned by the  *)
(* generation service is stripped of its code fence, the JSON payload is   *)
(* isolated and deserialized (parse_persona_data_from_json), and the       *)
(* parsed value is drawn on a fixed canvas (generate_persona_image with    *)
(* its helper draw_bullet_section, which word-wraps every Observation).    *)
(*                                                                         *)
(* A Python str is a sequence of atoms.  An atom is a run of characters    *)
(* that holds no space and no '/', or the single character " " or "/".     *)
(* A text handed to the deserializer is a sequence of lexical tokens.      *)
(***************************************************************************)
EXTENDS Integers, Sequences, FiniteSets, TLC

VARIABLES
    pc,                \* position of the run in main / generate_persona_image
    persona_raw_text,  \* main: result of generate_persona_with_gemini
    raw_saved,         \* main: TRUE once <username>_persona_raw.txt is written
    json_string,       \* parse_persona_data_from_json: the text given to json.loads
    persona_data,      \* main: result of parse_persona_data_from_json
    parse_calls,       \* number of calls of parse_persona_data_from_json
    render_calls,      \* number of calls of generate_persona_image
    image_saves,       \* number of calls of img.save
    image_written,     \* TRUE once img.save has written the image file
    y_offset,          \* generate_persona_image: the vertical cursor
    info_i,            \* generate_persona_image: index in info_items
    sec,               \* generate_persona_image: next bulleted section (1..5)
    y,                 \* draw_bullet_section: the cursor inside the helper
    max_width,         \* draw_bullet_section: parameter max_width
    items,             \* draw_bullet_section: parameter items
    k,                 \* draw_bullet_section: index of item_data in items
    wrapped_lines,     \* draw_bullet_section: wrapped lines of the current item
    li,                \* draw_bullet_section: index of the line being drawn
    canvas             \* the drawer.text calls made so far: <<x, y, text>>

vars == <<pc, persona_raw_text, raw_saved, json_string, persona_data, parse_calls,
          render_calls, image_saves, image_written, y_offset, info_i, sec, y, max_width, items,
          k, wrapped_lines, li, canvas>>

(***************************************************************************)
(* Bounds of the model.                                                    *)
(***************************************************************************)
MaxItemLen == 5     \* atoms in an Observation item handed to draw_bullet_section
MaxTextLen == 4     \* tokens in an exhaustively enumerated response

(***************************************************************************)
(* Python values as json.loads builds them.                                *)
(***************************************************************************)
None == [t |-> "null"]
Num(n) == [t |-> "num", v |-> n]
Str(s) == [t |-> "str", v |-> s]
List(elems) == [t |-> "list", v |-> elems]
Dict(f) == [t |-> "obj", v |-> f]
EmptyDict == Dict([key \in {} |-> None])

\* bool(v) as `if v:` / `if not v:` evaluate it
Truthy(val) ==
    CASE val.t = "null" -> FALSE
      [] val.t = "num" -> val.v # 0
      [] val.t = "str" -> Len(val.v) > 0
      [] val.t = "list" -> Len(val.v) > 0
      [] OTHER -> DOMAIN val.v # {}

\* d.get(key, default) on a dict
Get(d, key, default) ==
    IF key \in DOMAIN d.v THEN d.v[key] ELSE default

(***************************************************************************)
(* str operations used by the word wrap.                                   *)
(***************************************************************************)
IsSpace(atom) == atom = " "

RECURSIVE LStrip(_)
LStrip(s) ==
    IF s # <<>> /\ IsSpace(Head(s)) THEN LStrip(Tail(s)) ELSE s

RECURSIVE RStrip(_)
RStrip(s) ==
    IF s # <<>> /\ IsSpace(s[Len(s)]) THEN RStrip(SubSeq(s, 1, Len(s) - 1)) ELSE s

\* s.strip()
Strip(s) == RStrip(LStrip(s))

\* s.split(sep): the pieces between the occurrences of sep, empty pieces kept
RECURSIVE SplitFrom(_, _, _, _)
SplitFrom(s, sep, piece, acc) ==
    IF s = <<>> THEN Append(acc, piece)
    ELSE IF Head(s) = sep THEN SplitFrom(Tail(s), sep, <<>>, Append(acc, piece))
    ELSE SplitFrom(Tail(s), sep, Append(piece, Head(s)), acc)

Split(s, sep) == SplitFrom(s, sep, <<>>, <<>>)

\* pixel width of an atom in the body font: "a" is a short word, "W" a run of
\* characters without a space that is wider than the text column
GlyphWidth(atom) ==
    CASE atom = " " -> 5
      [] atom = "a" -> 300
      [] atom = "W" -> 700
      [] OTHER -> 30

\* bbox[2] - bbox[0] of drawer.textbbox((0,0), s, font=body_font)
RECURSIVE TextWidth(_)
TextWidth(s) ==
    IF s = <<>> THEN 0 ELSE GlyphWidth(Head(s)) + TextWidth(Tail(s))

\* faulty variant of WrapLoop: the line still being accumulated is dropped at the end
RECURSIVE WrapLoopNoFinalLine(_, _, _, _)
WrapLoopNoFinalLine(words, current_line, lines, max_w) ==
    IF words = <<>> THEN lines
    ELSE LET word == Head(words)
             test_line == Strip(current_line \o <<" ">> \o word)
         IN  IF TextWidth(test_line) < max_w - 20
             THEN WrapLoopNoFinalLine(Tail(words), test_line, lines, max_w)
             ELSE WrapLoopNoFinalLine(Tail(words), word, Append(lines, current_line), max_w)

\* the greedy loop `for word in words` and the final append
RECURSIVE WrapLoop(_, _, _, _)
WrapLoop(words, current_line, lines, max_w) ==
    IF words = <<>> THEN Append(lines, current_line)
    ELSE LET word == Head(words)
             test_line == Strip(current_line \o <<" ">> \o word)
         IN  IF TextWidth(test_line) < max_w - 20
             THEN WrapLoop(Tail(words), test_line, lines, max_w)
             ELSE WrapLoop(Tail(words), word, Append(lines, current_line), max_w)

\* wrapped_lines of item_text for max_width
WrapLines(item_text, max_w) == WrapLoop(Split(item_text, " "), <<>>, <<>>, max_w)

\* str(v) as an f-string formats it
PyStr(val) ==
    CASE val.t = "str" -> val.v
      [] val.t = "null" -> <<"None">>
      [] val.t = "num" -> IF val.v = 0 THEN <<"0">> ELSE <<"1">>
      [] val.t = "list" -> <<"[..]">>
      [] OTHER -> <<"{..}">>

(***************************************************************************)
(* Texts: sequences of lexical tokens.                                     *)
(***************************************************************************)
P(c) == [k |-> "punct", v |-> <<c>>]           \* one of { } [ ] , :
S(s) == [k |-> "str", v |-> s]                 \* a string literal with content s
N(n) == [k |-> "num", v |-> IF n = 0 THEN <<"0">> ELSE <<"1">>]
NullTok == [k |-> "null", v |-> <<"null">>]
Noise == [k |-> "noise", v |-> <<"Sorry">>]     \* commentary around the payload
Ws == [k |-> "ws", v |-> <<"NL">>]             \* whitespace
FenceJson == [k |-> "fence", v |-> <<"FENCE_JSON">>]   \* three backticks and json
Fence == [k |-> "fence", v |-> <<"FENCE">>]            \* three backticks

NoText == [some |-> FALSE, text |-> <<>>]      \* the None of generate_persona_with_gemini
Text(toks) == [some |-> TRUE, text |-> toks]

RECURSIVE LStripWs(_)
LStripWs(toks) ==
    IF toks # <<>> /\ Head(toks) = Ws THEN LStripWs(Tail(toks)) ELSE toks

RECURSIVE RStripWs(_)
RStripWs(toks) ==
    IF toks # <<>> /\ toks[Len(toks)] = Ws
    THEN RStripWs(SubSeq(toks, 1, Len(toks) - 1)) ELSE toks

\* the clean-up of response.text in generate_persona_with_gemini
StripFence(response_text) ==
    LET stripped == RStripWs(LStripWs(response_text))
        no_head == IF stripped # <<>> /\ Head(stripped) = FenceJson
                   THEN Tail(stripped) ELSE stripped
    IN  IF no_head # <<>> /\ no_head[Len(no_head)] = Fence
        THEN SubSeq(no_head, 1, Len(no_head) - 1) ELSE no_head

\* s.find(c): 0-based index of the first occurrence, -1 when there is none
Find(s, c) ==
    IF \E i \in 1..Len(s) : s[i] = P(c)
    THEN (CHOOSE i \in 1..Len(s) : s[i] = P(c) /\ \A j \in 1..(i - 1) : s[j] # P(c)) - 1
    ELSE -1

\* s.rfind(c): 0-based index of the last occurrence, -1 when there is none
RFind(s, c) ==
    IF \E i \in 1..Len(s) : s[i] = P(c)
    THEN (CHOOSE i \in 1..Len(s) : s[i] = P(c) /\ \A j \in (i + 1)..Len(s) : s[j] # P(c)) - 1
    ELSE -1

\* s[lo : hi] for 0 <= lo and 0 <= hi
Slice(s, lo, hi) == SubSeq(s, lo + 1, IF hi > Len(s) THEN Len(s) ELSE hi)

\* faulty variant of IsolatePayload: the slice stops before the closing brace
IsolatePayloadExclusive(s) ==
    LET start_brace == Find(s, "{")
        end_brace == RFind(s, "}")
    IN  IF start_brace # -1 /\ end_brace # -1
        THEN Slice(s, start_brace, end_brace)
        ELSE s

\* the text parse_persona_data_from_json hands to json.loads
IsolatePayload(s) ==
    LET start_brace == Find(s, "{")
        end_brace == RFind(s, "}")
    IN  IF start_brace # -1 /\ end_brace # -1
        THEN Slice(s, start_brace, end_brace + 1)
        ELSE s

(***************************************************************************)
(* json.loads: one JSON value between optional whitespace, nothing after.  *)
(* A result is [ok, val, next]; next is the position after the value.      *)
(***************************************************************************)
Failed == [ok |-> FALSE, val |-> None, next |-> 0]
Parsed(val, next) == [ok |-> TRUE, val |-> val, next |-> next]

RECURSIVE SkipWs(_, _)
SkipWs(toks, i) ==
    IF i <= Len(toks) /\ toks[i] = Ws THEN SkipWs(toks, i + 1) ELSE i

IsP(toks, i, c) == i <= Len(toks) /\ toks[i] = P(c)

RECURSIVE ParseValue(_, _)
RECURSIVE ArrayRest(_, _, _)
RECURSIVE ObjectRest(_, _, _)

\* the elements of an array after "[" or ","
ArrayRest(toks, i, acc) ==
    LET r == ParseValue(toks, i)
        j == SkipWs(toks, r.next)
    IN  IF ~r.ok THEN Failed
        ELSE IF IsP(toks, j, ",") THEN ArrayRest(toks, j + 1, Append(acc, r.val))
        ELSE IF IsP(toks, j, "]") THEN Parsed(List(Append(acc, r.val)), j + 1)
        ELSE Failed

\* the members of an object after "{" or ","; a repeated key keeps the last value
ObjectRest(toks, i, acc) ==
    LET kpos == SkipWs(toks, i)
        cpos == SkipWs(toks, kpos + 1)
        r == ParseValue(toks, cpos + 1)
        j == SkipWs(toks, r.next)
        key == toks[kpos].v
        more == [kk \in (DOMAIN acc) \cup {key} |-> IF kk = key THEN r.val ELSE acc[kk]]
    IN  IF ~(kpos <= Len(toks) /\ toks[kpos].k = "str") THEN Failed
        ELSE IF ~IsP(toks, cpos, ":") THEN Failed
        ELSE IF ~r.ok THEN Failed
        ELSE IF IsP(toks, j, ",") THEN ObjectRest(toks, j + 1, more)
        ELSE IF IsP(toks, j, "}") THEN Parsed(Dict(more), j + 1)
        ELSE Failed

ParseValue(toks, i0) ==
    LET i == SkipWs(toks, i0)
    IN  IF i > Len(toks) THEN Failed
        ELSE CASE toks[i].k = "str" -> Parsed(Str(toks[i].v), i + 1)
               [] toks[i].k = "num" -> Parsed(Num(IF toks[i].v = <<"0">> THEN 0 ELSE 1), i + 1)
               [] toks[i].k = "null" -> Parsed(None, i + 1)
               [] toks[i] = P("[") ->
                    IF IsP(toks, SkipWs(toks, i + 1), "]")
                    THEN Parsed(List(<<>>), SkipWs(toks, i + 1) + 1)
                    ELSE ArrayRest(toks, i + 1, <<>>)
               [] toks[i] = P("{") ->
                    IF IsP(toks, SkipWs(toks, i + 1), "}")
                    THEN Parsed(EmptyDict, SkipWs(toks, i + 1) + 1)
                    ELSE ObjectRest(toks, i + 1, [kk \in {} |-> None])
               [] OTHER -> Failed

\* json.loads(s): the value, or a JSONDecodeError
JsonLoads(s) ==
    LET r == ParseValue(s, 1)
    IN  IF r.ok /\ SkipWs(s, r.next) > Len(s) THEN r ELSE Failed

\* the return value of parse_persona_data_from_json: every exception gives None
ParsePersonaData(s) ==
    LET r == JsonLoads(IsolatePayload(s))
    IN  IF r.ok THEN r.val ELSE None

(***************************************************************************)
(* Canvas parameters of generate_persona_image.                            *)
(***************************************************************************)
width == 800
height == 1200
x_margin == 60
content_width == width - (2 * x_margin)

Key(name) == <<name>>
NA == Str(<<"N", "/", "A">>)

\* the keys and titles of the five draw_bullet_section calls, in call order
SectionKey ==
    <<Key("frustrations"), Key("likings"), Key("motivations"),
      Key("behavior_habits"), Key("goals_needs")>>
SectionTitle ==
    <<"Frustrations:", "Likings:", "Motivations:", "Behavior & Habits:", "Goals & Needs:">>

\* the labels and keys of info_items
InfoLabel == <<"Age:", "Occupation:", "Status:", "Location:", "Archetype:", "Personality:">>
InfoKey ==
    <<Key("estimated_age"), Key("occupation"), Key("status"),
      Key("likely_location"), Key("archetype"), Key("mbti_personality")>>

mainVars == <<persona_raw_text, raw_saved, json_string, persona_data, parse_calls, render_calls>>
imageVars == <<y_offset, info_i, sec, image_saves, image_written>>
bulletVars == <<y, max_width, items, k, wrapped_lines, li>>

\* drawer.text((x, yy), text, ...)
DrawText(x, yy, text) == canvas' = Append(canvas, <<x, yy, text>>)

\* an exception that nothing catches leaves main
Crash == pc' = "crashed"

(***************************************************************************)
(* draw_bullet_section                                                     *)
(***************************************************************************)
\* what `for item_data in items` iterates over (a number is not iterable)
IterElems(val) ==
    CASE val.t = "list" -> val.v
      [] val.t = "str" -> [i \in 1..Len(val.v) |-> Str(<<val.v[i]>>)]
      [] val.t = "obj" ->
            LET keys == DOMAIN val.v
                order == CHOOSE f \in [1..Cardinality(keys) -> keys] :
                             \A a, b \in 1..Cardinality(keys) : a # b => f[a] # f[b]
            IN  [i \in 1..Cardinality(keys) |-> Str(order[i])]
      [] OTHER -> <<>>

\* the section title, then the branch on `if not items`
BulletTitle ==
    /\ pc = "bullet_title"
    /\ DrawText(x_margin, y, <<SectionTitle[sec]>>)
    /\ y' = y + 25
    /\ IF ~Truthy(items) THEN pc' = "bullet_placeholder"
       ELSE IF items.t = "num" THEN Crash
       ELSE pc' = "bullet_item"
    /\ k' = 1
    /\ UNCHANGED <<mainVars, imageVars, max_width, items, wrapped_lines, li>>

\* the placeholder line of an empty section
BulletPlaceholder ==
    /\ pc = "bullet_placeholder"
    /\ DrawText(x_margin + 10, y, <<"(bullet)", " ", "No", " ", "specific", " ", "data", " ", "inferred.">>)
    /\ y' = y + 25
    /\ pc' = "bullet_end"
    /\ UNCHANGED <<mainVars, imageVars, max_width, items, k, wrapped_lines, li>>

\* the head of one pass of `for item_data in items`: the two .get calls and the wrap
BulletItem ==
    /\ pc = "bullet_item"
    /\ LET elems == IterElems(items)
       IN  IF k > Len(elems)
           THEN pc' = "bullet_end" /\ UNCHANGED <<wrapped_lines, li>>
           ELSE IF elems[k].t # "obj"
           THEN Crash /\ UNCHANGED <<wrapped_lines, li>>
           ELSE LET item_text == Get(elems[k], Key("item"), NA)
                IN  IF item_text.t # "str"
                    THEN Crash /\ UNCHANGED <<wrapped_lines, li>>
                    ELSE /\ wrapped_lines' = WrapLines(item_text.v, max_width)
                         /\ li' = 1
                         /\ pc' = "bullet_line"
    /\ UNCHANGED <<mainVars, imageVars, y, max_width, items, k, canvas>>

\* one pass of `for i, line in enumerate(wrapped_lines)`
BulletLine ==
    /\ pc = "bullet_line"
    /\ li <= Len(wrapped_lines)
    /\ LET prefix == IF li = 1 THEN <<"(bullet)", " ">> ELSE <<" ", " ">>
       IN  DrawText(x_margin + 10, y, prefix \o wrapped_lines[li])
    /\ y' = y + 20
    /\ li' = li + 1
    /\ UNCHANGED <<pc, mainVars, imageVars, max_width, items, k, wrapped_lines>>

\* `if citation:` after the lines of an item
BulletCitation ==
    /\ pc = "bullet_line"
    /\ li > Len(wrapped_lines)
    /\ LET citation == Get(IterElems(items)[k], Key("citation_url"), Str(<<>>))
           parts == Split(citation.v, "/")
       IN  IF ~Truthy(citation)
           THEN pc' = "bullet_item" /\ UNCHANGED <<y, canvas>>
           ELSE IF citation.t # "str"
           THEN Crash /\ UNCHANGED <<y, canvas>>
           ELSE /\ DrawText(x_margin + 25, y, <<"(Source:", " ">> \o parts[Len(parts)] \o <<")">>)
                /\ y' = y + 18
                /\ pc' = "bullet_item"
    /\ k' = k + 1
    /\ UNCHANGED <<mainVars, imageVars, max_width, items, wrapped_lines, li>>

\* faulty variant of BulletEnd: the space after the section is forgotten
BulletEndNoGap ==
    /\ pc = "bullet_end"
    /\ y' = y
    /\ pc' = "bullet_returned"
    /\ UNCHANGED <<mainVars, imageVars, max_width, items, k, wrapped_lines, li, canvas>>

\* the space after the section and `return y`
BulletEnd ==
    /\ pc = "bullet_end"
    /\ y' = y + 20
    /\ pc' = "bullet_returned"
    /\ UNCHANGED <<mainVars, imageVars, max_width, items, k, wrapped_lines, li, canvas>>

(***************************************************************************)
(* generate_persona_image                                                  *)
(***************************************************************************)
\* the guard `if not persona_data`, the canvas, the fonts and y_offset = 40
ImageEnter ==
    /\ pc = "image_enter"
    /\ IF ~Truthy(persona_data)
       THEN pc' = "epilogue" /\ UNCHANGED y_offset
       ELSE pc' = "title" /\ y_offset' = 40
    /\ UNCHANGED <<mainVars, info_i, sec, image_saves, image_written, bulletVars, canvas>>

\* Main Title
DrawTitle ==
    /\ pc = "title"
    /\ DrawText(x_margin, y_offset, <<"User", " ", "Persona", " ", "Card">>)
    /\ y_offset' = y_offset + 60
    /\ pc' = "name"
    /\ UNCHANGED <<mainVars, info_i, sec, image_saves, image_written, bulletVars>>

\* Persona Name: .get raises on a value that is no dict, drawer.text on a name
\* that is no str
DrawName ==
    /\ pc = "name"
    /\ IF persona_data.t # "obj"
       THEN Crash /\ UNCHANGED <<y_offset, canvas>>
       ELSE LET name == Get(persona_data, Key("persona_name"), NA)
            IN  IF name.t # "str"
                THEN Crash /\ UNCHANGED <<y_offset, canvas>>
                ELSE /\ DrawText(x_margin, y_offset, name.v)
                     /\ y_offset' = y_offset + 40
                     /\ pc' = "basic_header"
    /\ UNCHANGED <<mainVars, info_i, sec, image_saves, image_written, bulletVars>>

\* Basic Info Section: the title and the construction of info_items
DrawBasicHeader ==
    /\ pc = "basic_header"
    /\ DrawText(x_margin, y_offset, <<"Basic", " ", "Information:">>)
    /\ y_offset' = y_offset + 30
    /\ info_i' = 1
    /\ pc' = "info"
    /\ UNCHANGED <<mainVars, sec, image_saves, image_written, bulletVars>>

\* one pass of `for item in info_items`
DrawInfoItem ==
    /\ pc = "info"
    /\ info_i <= Len(InfoKey)
    /\ DrawText(x_margin + 10, y_offset,
                <<InfoLabel[info_i], " ">> \o PyStr(Get(persona_data, InfoKey[info_i], NA)))
    /\ y_offset' = y_offset + 25
    /\ info_i' = info_i + 1
    /\ UNCHANGED <<pc, mainVars, sec, image_saves, image_written, bulletVars>>

\* the gap after info_items
AfterInfo ==
    /\ pc = "info"
    /\ info_i > Len(InfoKey)
    /\ y_offset' = y_offset + 20
    /\ sec' = 1
    /\ pc' = "sections"
    /\ UNCHANGED <<mainVars, info_i, image_saves, image_written, bulletVars, canvas>>

\* draw_bullet_section(d, x_margin, y_offset, title, persona_data.get(key, []), ...)
CallSection ==
    /\ pc = "sections"
    /\ items' = Get(persona_data, SectionKey[sec], List(<<>>))
    /\ y' = y_offset
    /\ max_width' = content_width
    /\ pc' = "bullet_title"
    /\ UNCHANGED <<mainVars, imageVars, k, wrapped_lines, li, canvas>>

\* faulty variant of SectionReturn: the value the helper returns is dropped
SectionReturnDropped ==
    /\ pc = "bullet_returned"
    /\ y_offset' = y_offset
    /\ sec' = sec + 1
    /\ pc' = IF sec = Len(SectionKey) THEN "save" ELSE "sections"
    /\ UNCHANGED <<mainVars, info_i, image_saves, image_written, bulletVars, canvas>>

\* y_offset = <the value draw_bullet_section returns>
SectionReturn ==
    /\ pc = "bullet_returned"
    /\ y_offset' = y
    /\ sec' = sec + 1
    /\ pc' = IF sec = Len(SectionKey) THEN "save" ELSE "sections"
    /\ UNCHANGED <<mainVars, info_i, image_saves, image_written, bulletVars, canvas>>

\* img.save(filename): an exception is caught and reported
SaveImage ==
    /\ pc = "save"
    /\ image_saves' = image_saves + 1
    /\ \E saved \in BOOLEAN : image_written' = saved
    /\ pc' = "epilogue"
    /\ UNCHANGED <<mainVars, y_offset, info_i, sec, bulletVars, canvas>>

(***************************************************************************)
(* Responses of the generation service.                                    *)
(***************************************************************************)
\* the keys the prompt asks for, in the order of its JSON structure
KeyOrder ==
    <<Key("persona_name"), Key("estimated_age"), Key("occupation"), Key("status"),
      Key("likely_location"), Key("archetype"), Key("mbti_personality"),
      Key("motivations"), Key("behavior_habits"), Key("frustrations"), Key("likings"),
      Key("goals_needs"), Key("item"), Key("citation_url")>>

\* a dict from a sequence of <<key, value>> pairs
MkDict(pairs) ==
    Dict([kk \in {pairs[i][1] : i \in DOMAIN pairs} |->
             pairs[CHOOSE i \in DOMAIN pairs : pairs[i][1] = kk][2]])

\* one Observation as the prompt describes it
Obs(item, citation_url) ==
    MkDict(<< <<Key("item"), item>>, <<Key("citation_url"), citation_url>> >>)

RECURSIVE Serialize(_)
RECURSIVE SerializeElems(_)
RECURSIVE SerializeMembers(_, _)

SerializeElems(elems) ==
    IF elems = <<>> THEN <<>>
    ELSE IF Len(elems) = 1 THEN Serialize(Head(elems))
    ELSE Serialize(Head(elems)) \o <<P(",")>> \o SerializeElems(Tail(elems))

SerializeMembers(f, keys) ==
    IF keys = <<>> THEN <<>>
    ELSE LET member == <<S(Head(keys)), P(":")>> \o Serialize(f[Head(keys)])
         IN  IF Len(keys) = 1 THEN member
             ELSE member \o <<P(",")>> \o SerializeMembers(f, Tail(keys))

\* the JSON text of a value
Serialize(val) ==
    CASE val.t = "str" -> <<S(val.v)>>
      [] val.t = "num" -> <<N(val.v)>>
      [] val.t = "null" -> <<NullTok>>
      [] val.t = "list" -> <<P("[")>> \o SerializeElems(val.v) \o <<P("]")>>
      [] OTHER ->
            <<P("{")>>
            \o SerializeMembers(val.v, SelectSeq(KeyOrder, LAMBDA kk : kk \in DOMAIN val.v))
            \o <<P("}")>>

ShortWord == <<"a">>
ThreeWords == <<"a", " ", "a", " ", "a">>
LongWords == <<"W", " ", "W", " ", "W">>
Url == <<"https:", "/", "/", "reddit.com", "/", "r", "/", "x", "/", "comments", "/", "abc">>
TallList == List(<<Obs(Str(LongWords), Str(Url)), Obs(Str(LongWords), Str(Url))>>)

\* payloads the service may send: complete, partial and ill-shaped records
InputValues ==
    << EmptyDict,
       MkDict(<< <<Key("persona_name"), Str(<<"Alex", " ", "S.">>)>>,
                 <<Key("frustrations"), List(<<Obs(Str(ThreeWords), Str(Url))>>)>> >>),
       MkDict(<< <<Key("estimated_age"), Str(<<"25-35">>)>>, <<Key("occupation"), Num(1)>>,
                 <<Key("status"), None>>, <<Key("likings"), List(<<>>)>> >>),
       MkDict(<< <<Key("frustrations"), Str(ShortWord)>> >>),
       MkDict(<< <<Key("likings"), Num(1)>> >>),
       MkDict(<< <<Key("likings"), Num(0)>> >>),
       MkDict(<< <<Key("motivations"), Obs(Str(ShortWord), Str(<<>>))>> >>),
       MkDict(<< <<Key("goals_needs"), None>> >>),
       MkDict(<< <<Key("persona_name"), Num(1)>> >>),
       MkDict(<< <<Key("persona_name"), None>> >>),
       MkDict(<< <<Key("frustrations"), List(<<EmptyDict>>)>> >>),
       MkDict(<< <<Key("behavior_habits"),
                   List(<<Obs(Str(ShortWord), Str(<<>>)), Obs(Str(<<>>), Str(Url))>>)>> >>),
       MkDict(<< <<Key("frustrations"), List(<<Num(1)>>)>> >>),
       MkDict(<< <<Key("frustrations"), List(<<Obs(Num(1), Str(<<>>))>>)>> >>),
       MkDict(<< <<Key("likings"), List(<<Obs(Str(ShortWord), None)>>)>> >>),
       MkDict(<< <<Key("likings"), List(<<Obs(Str(ShortWord), Num(1))>>)>> >>),
       MkDict(<< <<Key("goals_needs"), List(<<Obs(Str(<<"W">>), Str(<<>>))>>)>> >>),
       MkDict(<< <<Key("frustrations"), TallList>>, <<Key("likings"), TallList>>,
                 <<Key("motivations"), TallList>>, <<Key("behavior_habits"), TallList>>,
                 <<Key("goals_needs"), TallList>> >>) >>

\* a payload as it arrives: bare, fenced, inside commentary, padded, or cut short
Wrappings(body) ==
    { body,
      <<FenceJson, Ws>> \o body \o <<Ws, Fence>>,
      <<Noise>> \o body \o <<Noise>>,
      <<Ws>> \o body \o <<Ws>>,
      SubSeq(body, 1, Len(body) - 1) }

CuratedResponses ==
    UNION { Wrappings(Serialize(InputValues[i])) : i \in DOMAIN InputValues }

TextAlphabet == {P("{"), P("}"), P("["), P("]"), N(1), Noise}

\* every text of at most MaxTextLen tokens over TextAlphabet
ShortTexts == UNION { [1..n -> TextAlphabet] : n \in 0..MaxTextLen }

Responses == ShortTexts \cup CuratedResponses

(***************************************************************************)
(* generate_persona_with_gemini, parse_persona_data_from_json and main     *)
(***************************************************************************)
\* faulty variant of ShouldRender: the image is generated whatever the parse returned
ShouldRenderAlways(data) == TRUE

\* `if persona_data:` in main
ShouldRender(data) == Truthy(data)

\* `if persona_raw_text:` in main
HasRawText == persona_raw_text.some /\ persona_raw_text.text # <<>>

\* input(...) and the return on an empty URL
ReadProfile ==
    /\ pc = "start"
    /\ \E profile_url \in {<<>>, <<"https://www.reddit.com/user/spez">>} :
          pc' = IF profile_url = <<>> THEN "done" ELSE "scrape"
    /\ UNCHANGED <<mainVars, imageVars, bulletVars, canvas>>

\* scrape_user_data and the return when nothing was found
ScrapeUserData ==
    /\ pc = "scrape"
    /\ \E found \in BOOLEAN : pc' = IF found THEN "generate" ELSE "done"
    /\ UNCHANGED <<mainVars, imageVars, bulletVars, canvas>>

\* generate_persona_with_gemini: the stripped text, or None on any exception
Generate ==
    /\ pc = "generate"
    /\ \/ \E response_text \in Responses :
             persona_raw_text' = Text(StripFence(response_text))
       \/ persona_raw_text' = NoText
    /\ pc' = "have_raw"
    /\ UNCHANGED <<raw_saved, json_string, persona_data, parse_calls, render_calls,
                   imageVars, bulletVars, canvas>>

\* the raw output is saved for debugging; a failing open or write is not caught
SaveRaw ==
    /\ pc = "have_raw"
    /\ HasRawText
    /\ \E written \in BOOLEAN :
          IF written THEN raw_saved' = TRUE /\ pc' = "parse"
          ELSE Crash /\ UNCHANGED raw_saved
    /\ UNCHANGED <<persona_raw_text, json_string, persona_data, parse_calls, render_calls,
                   imageVars, bulletVars, canvas>>

\* "Persona generation failed. No raw text output received."
NoRawText ==
    /\ pc = "have_raw"
    /\ ~HasRawText
    /\ pc' = "epilogue"
    /\ UNCHANGED <<mainVars, imageVars, bulletVars, canvas>>

\* persona_data = parse_persona_data_from_json(persona_raw_text)
Parse ==
    /\ pc = "parse"
    /\ json_string' = IsolatePayload(persona_raw_text.text)
    /\ persona_data' = ParsePersonaData(persona_raw_text.text)
    /\ parse_calls' = parse_calls + 1
    /\ pc' = "parsed"
    /\ UNCHANGED <<persona_raw_text, raw_saved, render_calls, imageVars, bulletVars, canvas>>

\* generate_persona_image(persona_data, image_filename)
RenderCall ==
    /\ pc = "parsed"
    /\ ShouldRender(persona_data)
    /\ render_calls' = render_calls + 1
    /\ pc' = "image_enter"
    /\ UNCHANGED <<persona_raw_text, raw_saved, json_string, persona_data, parse_calls,
                   imageVars, bulletVars, canvas>>

\* "Could not generate persona image due to parsing failure."
ParseFailure ==
    /\ pc = "parsed"
    /\ ~ShouldRender(persona_data)
    /\ pc' = "epilogue"
    /\ UNCHANGED <<mainVars, imageVars, bulletVars, canvas>>

\* the closing message of main
Epilogue ==
    /\ pc = "epilogue"
    /\ pc' = "done"
    /\ UNCHANGED <<mainVars, imageVars, bulletVars, canvas>>

(***************************************************************************)
(* Specifications.                                                         *)
(***************************************************************************)
Init ==
    /\ pc = "start"
    /\ persona_raw_text = NoText
    /\ raw_saved = FALSE
    /\ json_string = <<>>
    /\ persona_data = None
    /\ parse_calls = 0
    /\ render_calls = 0
    /\ image_saves = 0
    /\ image_written = FALSE
    /\ y_offset = 0
    /\ info_i = 0
    /\ sec = 0
    /\ y = 0
    /\ max_width = 0
    /\ items = None
    /\ k = 0
    /\ wrapped_lines = <<>>
    /\ li = 0
    /\ canvas = <<>>

Next ==
    \/ ReadProfile \/ ScrapeUserData \/ Generate \/ SaveRaw \/ NoRawText \/ Parse
    \/ RenderCall \/ ParseFailure \/ Epilogue
    \/ ImageEnter \/ DrawTitle \/ DrawName \/ DrawBasicHeader \/ DrawInfoItem \/ AfterInfo
    \/ CallSection \/ SectionReturn \/ SaveImage
    \/ BulletTitle \/ BulletPlaceholder \/ BulletItem \/ BulletLine \/ BulletCitation
    \/ BulletEnd

Spec == Init /\ [][Next]_vars

\* every text of at most MaxItemLen atoms over a short word, a long word and the space
ItemTexts == UNION { [1..n -> {"a", "W", " "}] : n \in 0..MaxItemLen }

\* the widths draw_bullet_section is tried with; content_width is what main passes
WidthChoices == {10, 20, 21, 320, content_width}

\* draw_bullet_section called on its own with one section's items
InitWrap ==
    /\ pc = "bullet_title"
    /\ persona_raw_text = NoText
    /\ raw_saved = FALSE
    /\ json_string = <<>>
    /\ persona_data = None
    /\ parse_calls = 0
    /\ render_calls = 0
    /\ image_saves = 0
    /\ image_written = FALSE
    /\ y_offset = 0
    /\ info_i = 0
    /\ sec = 1
    /\ y = 0
    /\ max_width \in WidthChoices
    /\ \/ items = List(<<>>)
       \/ \E text \in ItemTexts : \E cit \in {<<>>, Url} :
             items = List(<<Obs(Str(text), Str(cit))>>)
    /\ k = 0
    /\ wrapped_lines = <<>>
    /\ li = 0
    /\ canvas = <<>>

NextWrap ==
    \/ BulletTitle \/ BulletPlaceholder \/ BulletItem \/ BulletLine \/ BulletCitation
    \/ BulletEnd

SpecWrap == InitWrap /\ [][NextWrap]_vars

(***************************************************************************)
(* Properties.                                                             *)
(***************************************************************************)
\* lines joined with sep between them
RECURSIVE Join(_, _)
Join(lines, sep) ==
    IF lines = <<>> THEN <<>>
    ELSE IF Len(lines) = 1 THEN Head(lines)
    ELSE Head(lines) \o <<sep>> \o Join(Tail(lines), sep)

\* the wrap of the current item has run and its lines are being drawn
Wrapped == pc = "bullet_line"

\* item_text of the item whose lines are in wrapped_lines
CurItemText == Get(IterElems(items)[k], Key("item"), NA).v

HasTok(s, c) == \E i \in 1..Len(s) : s[i] = P(c)

\* the text given to parse_persona_data_from_json
RawText == persona_raw_text.text

\* C1: every line committed to wrapped_lines is at most max_width wide, for every
\* item and every positive max_width.
C1_WrapBounded ==
    (Wrapped /\ max_width > 0) =>
        \A i \in 1..Len(wrapped_lines) : TextWidth(wrapped_lines[i]) <= max_width

\* C2: the wrapped lines joined in order with single spaces are the item again: no
\* word lost, doubled or moved, no empty line or separator added.
C2_WrapPreserves ==
    (Wrapped /\ max_width > 0) => Join(wrapped_lines, " ") = CurItemText

\* C3: a text without a '{' ... '}' pair, or whose payload is no valid object, makes
\* parse_persona_data_from_json return None and nothing else.
C3_MalformedFails ==
    (parse_calls > 0
       /\ (\/ ~HasTok(RawText, "{")
           \/ ~HasTok(RawText, "}")
           \/ ~(JsonLoads(json_string).ok /\ JsonLoads(json_string).val.t = "obj")))
    => persona_data.t = "null"

\* C4: when the payload parses as an object, the empty object included, main takes
\* the success branch: the card is rendered and img.save is reached.
C4_ObjectIsRendered ==
    (pc \in {"epilogue", "done"} /\ parse_calls > 0 /\ persona_data.t = "obj")
    => (render_calls = 1 /\ image_saves = 1)

\* json_string runs from the first '{' of raw to its last '}', both included
SpansPayload(raw, js) ==
    \E a \in 1..Len(raw) : \E b \in a..Len(raw) :
        /\ raw[a] = P("{") /\ raw[b] = P("}")
        /\ \A i \in 1..(a - 1) : raw[i] # P("{")
        /\ \A i \in (b + 1)..Len(raw) : raw[i] # P("}")
        /\ js = SubSeq(raw, a, b)

BraceBeforeClose(raw) ==
    \E a \in 1..Len(raw) : \E b \in a..Len(raw) : raw[a] = P("{") /\ raw[b] = P("}")

\* C5 as claimed: whenever the text holds a '{' and a '}', in either order, the
\* deserializer gets the span from the first '{' to the last '}', which begins with
\* '{' and ends with '}'; a text missing either is handed over unchanged.
C5_IsolationAnyOrder ==
    parse_calls > 0 =>
        IF HasTok(RawText, "{") /\ HasTok(RawText, "}")
        THEN /\ json_string # <<>>
             /\ Head(json_string) = P("{")
             /\ json_string[Len(json_string)] = P("}")
             /\ SpansPayload(RawText, json_string)
        ELSE json_string = RawText

\* C5 amended: when the first '{' comes before the last '}', the deserializer gets
\* the span from the first '{' to the last '}' inclusive; when every '}' comes
\* before every '{', it gets the empty text; a text missing either delimiter is
\* handed over unchanged.
C5_Isolation ==
    parse_calls > 0 =>
        IF HasTok(RawText, "{") /\ HasTok(RawText, "}")
        THEN IF BraceBeforeClose(RawText)
             THEN /\ json_string # <<>>
                  /\ Head(json_string) = P("{")
                  /\ json_string[Len(json_string)] = P("}")
                  /\ SpansPayload(RawText, json_string)
             ELSE json_string = <<>>
        ELSE json_string = RawText

\* commentary on both sides of an object payload was cut away
C5_Witness ==
    /\ parse_calls > 0
    /\ Len(RawText) >= Len(json_string) + 2
    /\ Head(RawText) = Noise
    /\ RawText[Len(RawText)] = Noise
    /\ Len(json_string) > 2
    /\ persona_data.t = "obj"

\* a scalar the name line can draw: absent, or a string
NameDrawable(data) ==
    Key("persona_name") \in DOMAIN data.v => data.v[Key("persona_name")].t = "str"

\* an element draw_bullet_section is specified for: an object whose item and
\* citation_url are strings where present
IsObservation(e) ==
    /\ e.t = "obj"
    /\ Key("item") \in DOMAIN e.v => e.v[Key("item")].t = "str"
    /\ Key("citation_url") \in DOMAIN e.v => e.v[Key("citation_url")].t = "str"

\* a list field the claim covers: absent, not list-shaped, or a list of Observations
ListFieldCovered(data, key) ==
    key \in DOMAIN data.v =>
        (data.v[key].t = "list" =>
            \A i \in 1..Len(data.v[key].v) : IsObservation(data.v[key].v[i]))

\* C6: for every parsed object the render completes without error: absent scalars
\* show "N/A", a list field that is absent or not list-shaped (null, string,
\* number, object) is drawn as the placeholder, elements may lack item or
\* citation_url.
C6_RenderTotal ==
    (/\ persona_data.t = "obj"
     /\ NameDrawable(persona_data)
     /\ \A s \in 1..Len(SectionKey) : ListFieldCovered(persona_data, SectionKey[s]))
    => pc # "crashed"

\* C7: generate_persona_image runs, and an image is written, only after
\* parse_persona_data_from_json returned a value for this run's raw text; when the
\* generation gives no text or the parse fails nothing is drawn or written, and
\* the run does not end in an exception.
C7_ShortCircuit ==
    /\ (render_calls > 0 \/ image_saves > 0 \/ image_written \/ canvas # <<>>)
           => (HasRawText /\ parse_calls = 1 /\ persona_data.t # "null")
    /\ parse_calls > 0 => (HasRawText /\ raw_saved)
    /\ pc = "crashed" => (HasRawText /\ (parse_calls > 0 => persona_data.t # "null"))
    /\ (pc \in {"epilogue", "done"}
          /\ (~HasRawText \/ (parse_calls > 0 /\ persona_data.t = "null")))
           => (render_calls = 0 /\ image_saves = 0 /\ ~image_written /\ canvas = <<>>)

\* a run whose parse failed has ended normally without a render
C7_Witness ==
    /\ pc = "done"
    /\ HasRawText
    /\ parse_calls = 1
    /\ persona_data.t = "null"
    /\ render_calls = 0
    /\ ~image_written

\* the cursor of the render pass: y inside draw_bullet_section, y_offset outside
InBullet ==
    pc \in {"bullet_title", "bullet_placeholder", "bullet_item", "bullet_line",
            "bullet_end", "bullet_returned"}
Cursor == IF InBullet THEN y ELSE y_offset

\* C8: in one render pass the cursor never decreases from one step to the next,
\* the hand-over into and out of draw_bullet_section included.
C8_CursorMonotone == [][pc' # "crashed" => Cursor' >= Cursor]_vars

\* the last section is about to hand its advanced cursor back
C8_Witness ==
    /\ render_calls = 1
    /\ pc = "bullet_returned"
    /\ sec = Len(SectionKey)
    /\ y > y_offset
    /\ y_offset > 340

ObservationHeight(e) ==
    20 * Len(WrapLines(Get(e, Key("item"), NA).v, content_width))
    + (IF Truthy(Get(e, Key("citation_url"), Str(<<>>))) THEN 18 ELSE 0)

RECURSIVE SumHeights(_)
SumHeights(elems) ==
    IF elems = <<>> THEN 0 ELSE ObservationHeight(Head(elems)) + SumHeights(Tail(elems))

\* the height of one section: 45, and 25 for the placeholder or the Observations
SectionHeight(list) ==
    45 + (IF ~Truthy(list) THEN 25 ELSE SumHeights(list.v))

RECURSIVE CardHeight(_, _)
CardHeight(data, s) ==
    IF s > Len(SectionKey) THEN 0
    ELSE SectionHeight(Get(data, SectionKey[s], List(<<>>))) + CardHeight(data, s + 1)

\* C10: after a complete render pass the cursor is 340 plus the five section
\* heights, whatever the canvas height; img.save runs once, after the last section.
C10_CursorAccounting ==
    /\ (pc = "save" \/ image_saves > 0) => y_offset = 340 + CardHeight(persona_data, 1)
    /\ image_saves <= 1
    /\ image_saves = 1 => (sec = Len(SectionKey) + 1 /\ pc \in {"epilogue", "done"})
    /\ image_written => image_saves = 1

\* a card taller than the canvas was laid out to the end and saved
C10_Witness ==
    /\ pc = "done"
    /\ image_saves = 1
    /\ image_written
    /\ y_offset > height
    /\ y_offset = 340 + CardHeight(persona_data, 1)

====
